---- MODULE Spec2Model ----
(***************************************************************************)
(* Model of the `clean` command of gh-worktree (internal/cli/clean.go):    *)
(* the porcelain parser of getWorktreeInfo, the ordered regular-expression *)
(* heuristic of extractPRNumber, and the policy loop, the removal path and *)
(* the interactive stale path of NewClean's RunE.                          *)
(*                                                                         *)
(* Strings are sequences of one-character strings, so that prefix tests,   *)
(* splitting, pattern matching and number parsing are computed as the Go   *)
(* code computes them.  Time is counted in whole hours.                    *)
(***************************************************************************)
EXTENDS Integers, Sequences, FiniteSets, TLC

VARIABLES
    pc,              \* position of RunE (or of the function under study)
    output,          \* stdout of `git worktree list --porcelain`
    dryRun,          \* --dry-run
    staleDays,       \* --stale-days
    repo,            \* TRUE iff gh.CurrentRepository() succeeded (repo != nil)
    worktrees,       \* []WorktreeInfo returned by getWorktreeInfo
    idx,             \* loop counter of the loop RunE is in
    toRemove,        \* var toRemove []WorktreeInfo
    staleWorktrees,  \* var staleWorktrees []WorktreeInfo
    evaluated,       \* enumeration indices the policy loop did not skip
    lookups,         \* log of getPRStatus calls: enumeration index, PR number, outcome
    removals,        \* log of removeWorktree calls: path, outcome
    response,        \* the line read from standard input
    promptRead,      \* TRUE iff reader.ReadString was called
    toDelete,        \* var toDelete []WorktreeInfo
    retval,          \* what RunE returned: "none" (running), "nil" or "error"
    text,            \* argument of extractPRNumber under study
    result           \* value extractPRNumber returned

vars == <<pc, output, dryRun, staleDays, repo, worktrees, idx, toRemove,
          staleWorktrees, evaluated, lookups, removals, response, promptRead,
          toDelete, retval, text, result>>

(***************************************************************************)
(* Bounds of the model.                                                    *)
(***************************************************************************)
MaxSegs == 3        \* pieces an extractPRNumber argument is assembled from
MaxLines == 4       \* lines of a porcelain output given to the parser alone
MaxBlocks == 2      \* secondary worktrees of a `clean` run
MaxTokens == 2      \* whitespace-separated tokens typed at the prompt

(***************************************************************************)
(* Go string helpers (package strings, path/filepath, strconv).            *)
(***************************************************************************)
Digits == {"0", "1", "2", "3", "4", "5", "6", "7", "8", "9"}

IsDigit(c) == c \in Digits

DigitVal(c) ==
    CASE c = "0" -> 0 [] c = "1" -> 1 [] c = "2" -> 2 [] c = "3" -> 3
      [] c = "4" -> 4 [] c = "5" -> 5 [] c = "6" -> 6 [] c = "7" -> 7
      [] c = "8" -> 8 [] c = "9" -> 9

\* strings.HasPrefix
HasPrefix(s, p) == Len(s) >= Len(p) /\ SubSeq(s, 1, Len(p)) = p

\* strings.TrimPrefix
TrimPrefix(s, p) == IF HasPrefix(s, p) THEN SubSeq(s, Len(p) + 1, Len(s)) ELSE s

\* strings.Contains
Contains(s, sub) ==
    \E i \in 1..(Len(s) - Len(sub) + 1) : SubSeq(s, i, i + Len(sub) - 1) = sub

\* strings.Split(s, sep) for a one-character separator: the pieces between
\* consecutive separators, one more than there are separators
Split(s, sep) ==
    LET at == {i \in 1..Len(s) : s[i] = sep}
        \* the position of the k-th separator; 0 and Len(s) + 1 at the two ends
        pos(k) == IF k = 0 THEN 0
                  ELSE IF k > Cardinality(at) THEN Len(s) + 1
                  ELSE CHOOSE i \in at : Cardinality({j \in at : j <= i}) = k
    IN  [k \in 1..(Cardinality(at) + 1) |-> SubSeq(s, pos(k - 1) + 1, pos(k) - 1)]

\* the white space of unicode.IsSpace.  A character is written as itself or
\* by its escape, and by its code point where TLA+ has no way to write it:
\* vertical tab, next line, no-break space, and the space separators and
\* line/paragraph separators beyond Latin-1
SpaceChars ==
    { " ", "\t", "\n", "\r", "\f", "U+000B", "U+0085", "U+00A0",
      "U+1680", "U+2000", "U+2001", "U+2002", "U+2003", "U+2004", "U+2005",
      "U+2006", "U+2007", "U+2008", "U+2009", "U+200A", "U+2028", "U+2029",
      "U+202F", "U+205F", "U+3000" }

\* unicode.IsSpace
IsSpace(c) == c \in SpaceChars

\* strings.TrimSpace
RECURSIVE TrimLeft(_)
TrimLeft(s) == IF s # <<>> /\ IsSpace(s[1]) THEN TrimLeft(Tail(s)) ELSE s

RECURSIVE TrimRight(_)
TrimRight(s) ==
    IF s # <<>> /\ IsSpace(s[Len(s)]) THEN TrimRight(SubSeq(s, 1, Len(s) - 1)) ELSE s

TrimSpace(s) == TrimRight(TrimLeft(s))

\* strings.Fields: the maximal runs of non-space characters
RECURSIVE FieldsFrom(_, _, _)
FieldsFrom(s, i, cur) ==
    IF i > Len(s) THEN (IF cur = <<>> THEN <<>> ELSE <<cur>>)
    ELSE IF IsSpace(s[i])
         THEN (IF cur = <<>> THEN <<>> ELSE <<cur>>) \o FieldsFrom(s, i + 1, <<>>)
         ELSE FieldsFrom(s, i + 1, Append(cur, s[i]))

Fields(s) == FieldsFrom(s, 1, <<>>)

\* bufio.Reader.ReadString('\n'): the input up to and including the first newline
RECURSIVE ReadString(_)
ReadString(in) ==
    IF in = <<>> THEN <<>>
    ELSE IF in[1] = "\n" THEN <<"\n">>
    ELSE <<in[1]>> \o ReadString(Tail(in))

\* filepath.Base: the last element of the path, trailing slashes removed
RECURSIVE StripSlashes(_)
StripSlashes(p) ==
    IF p # <<>> /\ p[Len(p)] = "/" THEN StripSlashes(SubSeq(p, 1, Len(p) - 1)) ELSE p

RECURSIVE LastElem(_)
LastElem(p) ==
    IF p = <<>> \/ p[Len(p)] = "/" THEN <<>>
    ELSE Append(LastElem(SubSeq(p, 1, Len(p) - 1)), p[Len(p)])

Base(p) ==
    IF p = <<>> THEN <<".">>
    ELSE IF StripSlashes(p) = <<>> THEN <<"/">>
    ELSE LastElem(StripSlashes(p))

\* decimal digits with the leading zeros removed (the empty sequence for zero)
RECURSIVE StripZeros(_)
StripZeros(d) == IF d # <<>> /\ d[1] = "0" THEN StripZeros(Tail(d)) ELSE d

\* d < e for two digit sequences of the same length
RECURSIVE DigitsLess(_, _)
DigitsLess(d, e) ==
    IF d = <<>> THEN FALSE
    ELSE IF d[1] # e[1] THEN DigitVal(d[1]) < DigitVal(e[1])
    ELSE DigitsLess(Tail(d), Tail(e))

\* math.MaxInt64 = 9223372036854775807, the largest value of Go's int
MaxInt64Digits ==
    <<"9", "2", "2", "3", "3", "7", "2", "0", "3", "6",
      "8", "5", "4", "7", "7", "5", "8", "0", "7">>

\* the magnitude of math.MinInt64 = -9223372036854775808
MinInt64Digits ==
    <<"9", "2", "2", "3", "3", "7", "2", "0", "3", "6",
      "8", "5", "4", "7", "7", "5", "8", "0", "8">>

\* TRUE iff the digit sequence denotes a number above the one `limit` denotes
Overflows(d, limit) ==
    LET z == StripZeros(d) IN
    \/ Len(z) > Len(limit)
    \/ Len(z) = Len(limit) /\ DigitsLess(limit, z)

RECURSIVE DigitsValue(_)
DigitsValue(d) ==
    IF d = <<>> THEN 0
    ELSE 10 * DigitsValue(SubSeq(d, 1, Len(d) - 1)) + DigitVal(d[Len(d)])

\* strconv.Atoi: an optional sign, then one or more decimal digits, in the range
\* of a 64-bit int; otherwise an error
Atoi(s) ==
    LET signed == s # <<>> /\ s[1] \in {"+", "-"}
        neg == signed /\ s[1] = "-"
        d == IF signed THEN Tail(s) ELSE s
    IN  IF \/ d = <<>>
           \/ \E i \in 1..Len(d) : ~IsDigit(d[i])
           \/ Overflows(d, IF neg THEN MinInt64Digits ELSE MaxInt64Digits)
        THEN [ok |-> FALSE, val |-> 0]
        ELSE [ok |-> TRUE, val |-> IF neg THEN 0 - DigitsValue(d) ELSE DigitsValue(d)]

(***************************************************************************)
(* extractPRNumber: six patterns tried in order.  A pattern's match is the *)
(* leftmost one, its \d+ greedy, as regexp.FindStringSubmatch returns it.  *)
(***************************************************************************)
\* the longest run of digits of t that starts at position i
RECURSIVE DigitRun(_, _)
DigitRun(t, i) ==
    IF i <= Len(t) /\ IsDigit(t[i]) THEN <<t[i]>> \o DigitRun(t, i + 1) ELSE <<>>

NoMatch == [ok |-> FALSE, cap |-> <<>>]

\* `<word>[-_/](\d+)` matched with its first character at position i
WordAt(t, i, word) ==
    /\ i >= 1
    /\ i + Len(word) + 1 <= Len(t)
    /\ SubSeq(t, i, i + Len(word) - 1) = word
    /\ t[i + Len(word)] \in {"-", "_", "/"}
    /\ IsDigit(t[i + Len(word) + 1])

\* `[-_]<word>[-_/](\d+)`
InfixRule(t, word) ==
    LET at == {i \in 1..Len(t) : t[i] \in {"-", "_"} /\ WordAt(t, i + 1, word)} IN
    IF at = {} THEN NoMatch
    ELSE LET i == CHOOSE k \in at : \A j \in at : k <= j
         IN  [ok |-> TRUE, cap |-> DigitRun(t, i + Len(word) + 2)]

\* `^<word>[-_/](\d+)`
PrefixRule(t, word) ==
    IF WordAt(t, 1, word)
    THEN [ok |-> TRUE, cap |-> DigitRun(t, Len(word) + 2)]
    ELSE NoMatch

\* `^(\d+)[-_]`
LeadingRule(t) ==
    LET d == DigitRun(t, 1) IN
    IF d # <<>> /\ Len(d) < Len(t) /\ t[Len(d) + 1] \in {"-", "_"}
    THEN [ok |-> TRUE, cap |-> d]
    ELSE NoMatch

\* the digit-count floor of `[-_](\d{4,})$`
MinTrailingDigits == 4

\* `[-_](\d{4,})$`
TrailingRule(t) ==
    LET at == {i \in 1..Len(t) :
                  /\ t[i] \in {"-", "_"}
                  /\ Len(t) - i >= MinTrailingDigits
                  /\ \A j \in (i + 1)..Len(t) : IsDigit(t[j])} IN
    IF at = {} THEN NoMatch
    ELSE LET i == CHOOSE k \in at : \A j \in at : k <= j
         IN  [ok |-> TRUE, cap |-> SubSeq(t, i + 1, Len(t))]

NumPatterns == 6

\* patterns[k-1] applied to t: re.FindStringSubmatch(text), matches[1]
Pattern(k, t) ==
    CASE k = 1 -> InfixRule(t, <<"p", "r">>)
      [] k = 2 -> PrefixRule(t, <<"p", "r">>)
      [] k = 3 -> InfixRule(t, <<"p", "u", "l", "l">>)
      [] k = 4 -> PrefixRule(t, <<"p", "u", "l", "l">>)
      [] k = 5 -> LeadingRule(t)
      [] k = 6 -> TrailingRule(t)

\* a variant of the loop in which the last pattern that yields a number wins
RECURSIVE extractLastWins(_, _)
extractLastWins(t, k) ==
    IF k < 1 THEN 0
    ELSE LET m == Pattern(k, t) IN
         IF m.ok /\ Atoi(m.cap).ok THEN Atoi(m.cap).val
         ELSE extractLastWins(t, k - 1)

extractPRNumberLastWins(t) == extractLastWins(t, NumPatterns)

\* the loop `for _, pattern := range patterns` from pattern k on
RECURSIVE extractFrom(_, _)
extractFrom(t, k) ==
    IF k > NumPatterns THEN 0
    ELSE LET m == Pattern(k, t) IN
         IF m.ok /\ Atoi(m.cap).ok THEN Atoi(m.cap).val
         ELSE extractFrom(t, k + 1)

extractPRNumber(t) == extractFrom(t, 1)

(***************************************************************************)
(* getWorktreeInfo: the parser of the porcelain output.                    *)
(***************************************************************************)
\* time.Time{}: the zero time, the value of an unset LastCommit
ZeroTime == [zero |-> TRUE, unix |-> 0]

\* WorktreeInfo{}
EmptyInfo ==
    [Path |-> <<>>, Branch |-> <<>>, PRNumber |-> 0, LastCommit |-> ZeroTime,
     PRStatus |-> ""]

WorktreePrefix == <<"w", "o", "r", "k", "t", "r", "e", "e", " ">>

BranchPrefix ==
    <<"b", "r", "a", "n", "c", "h", " ", "r", "e", "f", "s", "/",
      "h", "e", "a", "d", "s", "/">>

\* "Before appending, ensure PR number is extracted"
WithPathPR(current) ==
    IF current.PRNumber = 0
    THEN [current EXCEPT !.PRNumber = extractPRNumber(Base(current.Path))]
    ELSE current

\* the `branch refs/heads/` arm of the loop
WithBranch(current, line) ==
    LET b == TrimPrefix(line, BranchPrefix)
        n == extractPRNumber(b)
    IN  [current EXCEPT !.Branch = b,
                        !.PRNumber = IF n = 0 THEN extractPRNumber(Base(current.Path))
                                     ELSE n]

\* "Handle last worktree if it exists"
FinalAppend(acc, current) ==
    IF current.Path # <<>> THEN Append(acc, WithPathPR(current)) ELSE acc

\* the loop `for _, line := range lines` from line k on, then the final append
RECURSIVE ParseLines(_, _, _, _)
ParseLines(lines, k, current, acc) ==
    IF k > Len(lines) THEN FinalAppend(acc, current)
    ELSE LET line == lines[k] IN
         IF HasPrefix(line, WorktreePrefix)
         THEN ParseLines(lines, k + 1,
                         [EmptyInfo EXCEPT !.Path = TrimPrefix(line, WorktreePrefix)],
                         IF current.Path # <<>> THEN Append(acc, WithPathPR(current))
                         ELSE acc)
         ELSE IF HasPrefix(line, BranchPrefix)
         THEN ParseLines(lines, k + 1, WithBranch(current, line), acc)
         ELSE IF line = <<>> /\ current.Path # <<>>
         THEN ParseLines(lines, k + 1, EmptyInfo, Append(acc, WithPathPR(current)))
         ELSE ParseLines(lines, k + 1, current, acc)

\* a variant of the parser that forgets the record pending at the end of the output
RECURSIVE ParseLinesNoFinal(_, _, _, _)
ParseLinesNoFinal(lines, k, current, acc) ==
    IF k > Len(lines) THEN acc
    ELSE LET line == lines[k] IN
         IF HasPrefix(line, WorktreePrefix)
         THEN ParseLinesNoFinal(lines, k + 1,
                         [EmptyInfo EXCEPT !.Path = TrimPrefix(line, WorktreePrefix)],
                         IF current.Path # <<>> THEN Append(acc, WithPathPR(current))
                         ELSE acc)
         ELSE IF HasPrefix(line, BranchPrefix)
         THEN ParseLinesNoFinal(lines, k + 1, WithBranch(current, line), acc)
         ELSE IF line = <<>> /\ current.Path # <<>>
         THEN ParseLinesNoFinal(lines, k + 1, EmptyInfo, Append(acc, WithPathPR(current)))
         ELSE ParseLinesNoFinal(lines, k + 1, current, acc)

ParsePorcelainNoFinal(out) == ParseLinesNoFinal(Split(out, "\n"), 1, EmptyInfo, <<>>)

\* lines 170-209: strings.Split(string(output), "\n") and the loop over the lines
ParsePorcelain(out) == ParseLines(Split(out, "\n"), 1, EmptyInfo, <<>>)

(***************************************************************************)
(* Time.  A time.Time is the zero time or a Unix time in seconds; a        *)
(* time.Duration is counted in whole hours (truncated toward zero), which  *)
(* is exact for the only use made of it: int(d.Hours() / 24).              *)
(***************************************************************************)
HoursPerDay == 24

SecondsPerHour == 3600

\* math.MaxInt64 nanoseconds, the value at which Time.Sub saturates, in whole
\* hours: 9223372036854775807 \div 3600000000000
MaxDurationHours == 2562047

\* the wall clock of the run: day 20500 of the Unix era
NowUnix == 20500 * HoursPerDay * SecondsPerHour

\* Go's integer division and float-to-int conversion truncate toward zero
TruncDiv(a, b) == IF a >= 0 THEN a \div b ELSE 0 - ((0 - a) \div b)

\* a variant of Since in which the zero time counts as no time elapsed
SinceZeroIsNow(t) ==
    IF t.zero THEN 0 ELSE TruncDiv(NowUnix - t.unix, SecondsPerHour)

\* time.Since(t), in whole hours: the zero time (year 1) is more than
\* math.MaxInt64 nanoseconds back, so the difference saturates
Since(t) ==
    IF t.zero THEN MaxDurationHours ELSE TruncDiv(NowUnix - t.unix, SecondsPerHour)

\* int(time.Since(wt.LastCommit).Hours() / 24)
daysSinceCommit(wt) == TruncDiv(Since(wt.LastCommit), HoursPerDay)

\* getLastCommitDate on an outcome of `git log -1 --format=%at`
getLastCommitDate(o) ==
    LET timestamp == TrimSpace(o.stdout)
        unix == Atoi(timestamp)
    IN  IF o.err \/ timestamp = <<>> \/ ~unix.ok
        THEN [ok |-> FALSE, time |-> ZeroTime]
        ELSE [ok |-> TRUE, time |-> [zero |-> FALSE, unix |-> unix.val]]

\* getPRStatus on an outcome of the REST call
getPRStatus(a) ==
    IF a.err THEN [ok |-> FALSE, status |-> ""]
    ELSE IF a.Merged THEN [ok |-> TRUE, status |-> "merged"]
    ELSE [ok |-> TRUE, status |-> a.State]

(***************************************************************************)
(* The decisions of RunE.                                                  *)
(***************************************************************************)
GitDir == <<"/", ".", "g", "i", "t">>

MainBranch == <<"m", "a", "i", "n">>

MasterBranch == <<"m", "a", "s", "t", "e", "r">>

\* "Skip main worktree"
isMain(wt) ==
    Contains(wt.Path, GitDir) \/ wt.Branch = MainBranch \/ wt.Branch = MasterBranch

\* a variant of the lookup condition without the test of repo
NeedsLookupNoRepo(prNumber, r) == prNumber > 0

\* wt.PRNumber > 0 && repo != nil
NeedsLookup(prNumber, r) == prNumber > 0 /\ r

\* a variant of the removal test that misses closed pull requests
IsRemovableMergedOnly(status) == status = "merged"

\* status == "merged" || status == "closed"
IsRemovable(status) == status = "merged" \/ status = "closed"

\* a variant of the stale test with >=
IsStaleInclusive(days, threshold) == days >= threshold

\* daysSinceCommit > staleDays
IsStale(days, threshold) == days > threshold

\* a variant of the removal guard that ignores --dry-run
RemovalEnabledAlways(dr) == TRUE

\* if !dryRun
RemovalEnabled(dr) == ~dr

\* a variant of the range test that rejects the last index
ValidIndexShort(i, n) == i > 0 /\ i < n

\* idx > 0 && idx <= len(staleWorktrees)
ValidIndex(i, n) == i > 0 /\ i <= n

AllWord == <<"a", "l", "l">>

\* the loop over strings.Fields(response) from token k on
RECURSIVE SelectIndices(_, _, _)
SelectIndices(tokens, k, stale) ==
    IF k > Len(tokens) THEN <<>>
    ELSE LET n == Atoi(tokens[k]) IN
         (IF n.ok /\ ValidIndex(n.val, Len(stale)) THEN <<stale[n.val]>> ELSE <<>>)
         \o SelectIndices(tokens, k + 1, stale)

\* toDelete for a non-empty trimmed response
SelectStale(resp, stale) ==
    IF resp = AllWord THEN stale ELSE SelectIndices(Fields(resp), 1, stale)

(***************************************************************************)
(* RunE of the clean command, one step per external call or loop turn.     *)
(* The sets LO, AO, RO and INS are the outcomes the environment may give:  *)
(* of `git log`, of the REST call, of `git worktree remove`, and the lines *)
(* typed on standard input.                                                *)
(***************************************************************************)
\* getWorktreeInfo fails: git is not found, or `git worktree list` fails
ListFails ==
    /\ pc = "start"
    /\ retval' = "error"
    /\ pc' = "done"
    /\ UNCHANGED <<output, dryRun, staleDays, repo, worktrees, idx, toRemove,
                   staleWorktrees, evaluated, lookups, removals, response,
                   promptRead, toDelete, text, result>>

\* getWorktreeInfo, lines 164-209
ListWorktrees ==
    /\ pc = "start"
    /\ worktrees' = ParsePorcelain(output)
    /\ idx' = 1
    /\ pc' = "dates"
    /\ UNCHANGED <<output, dryRun, staleDays, repo, toRemove,
                   staleWorktrees, evaluated, lookups, removals, response,
                   promptRead, toDelete, retval, text, result>>

\* getWorktreeInfo, lines 212-219: one turn of the loop
LastCommitStep(LO) ==
    /\ pc = "dates"
    /\ idx <= Len(worktrees)
    /\ IF worktrees[idx].Branch # <<>>
       THEN \E o \in LO :
               LET r == getLastCommitDate(o) IN
               worktrees' = IF r.ok
                            THEN [worktrees EXCEPT ![idx].LastCommit = r.time]
                            ELSE worktrees
       ELSE worktrees' = worktrees
    /\ idx' = idx + 1
    /\ UNCHANGED <<pc, output, dryRun, staleDays, repo, toRemove,
                   staleWorktrees, evaluated, lookups, removals, response,
                   promptRead, toDelete, retval, text, result>>

\* lines 45-56: the empty list check and gh.CurrentRepository()
Analyze ==
    /\ pc = "dates"
    /\ idx > Len(worktrees)
    /\ IF Len(worktrees) = 0
       THEN /\ retval' = "nil"
            /\ pc' = "done"
            /\ UNCHANGED <<repo, idx>>
       ELSE /\ repo' \in BOOLEAN
            /\ pc' = "classify"
            /\ idx' = 1
            /\ UNCHANGED retval
    /\ UNCHANGED <<output, dryRun, staleDays, worktrees, toRemove,
                   staleWorktrees, evaluated, lookups, removals, response,
                   promptRead, toDelete, text, result>>

\* lines 76-80 for the record wt
StaleCheck(wt) ==
    staleWorktrees' = IF IsStale(daysSinceCommit(wt), staleDays)
                      THEN Append(staleWorktrees, wt)
                      ELSE staleWorktrees

\* lines 58-81: one turn of the policy loop
ClassifyStep(AO) ==
    /\ pc = "classify"
    /\ idx <= Len(worktrees)
    /\ LET wt == worktrees[idx] IN
       IF isMain(wt)
       THEN UNCHANGED <<toRemove, staleWorktrees, evaluated, lookups>>
       ELSE /\ evaluated' = evaluated \cup {idx}
            /\ IF NeedsLookup(wt.PRNumber, repo)
               THEN \E a \in AO :
                       LET r == getPRStatus(a)
                           seen == [wt EXCEPT !.PRStatus = r.status]
                       IN  /\ lookups' = Append(lookups,
                                  [i |-> idx, pr |-> wt.PRNumber,
                                   ok |-> r.ok, status |-> r.status])
                           /\ IF r.ok /\ IsRemovable(r.status)
                              THEN /\ toRemove' = Append(toRemove, seen)
                                   /\ UNCHANGED staleWorktrees
                              ELSE /\ StaleCheck(IF r.ok THEN seen ELSE wt)
                                   /\ UNCHANGED toRemove
               ELSE /\ StaleCheck(wt)
                    /\ UNCHANGED <<toRemove, lookups>>
    /\ idx' = idx + 1
    /\ UNCHANGED <<pc, output, dryRun, staleDays, repo, worktrees, removals,
                   response, promptRead, toDelete, retval, text, result>>

\* the policy loop ends
ClassifyDone ==
    /\ pc = "classify"
    /\ idx > Len(worktrees)
    /\ pc' = "remove"
    /\ idx' = 1
    /\ UNCHANGED <<output, dryRun, staleDays, repo, worktrees, toRemove,
                   staleWorktrees, evaluated, lookups, removals, response,
                   promptRead, toDelete, retval, text, result>>

\* a variant of the removal loop that stops at the first failed removal
RemoveStepAbort(RO) ==
    /\ pc = "remove"
    /\ idx <= Len(toRemove)
    /\ IF RemovalEnabled(dryRun)
       THEN \E ok \in RO :
               /\ removals' = Append(removals, [path |-> toRemove[idx].Path, ok |-> ok])
               /\ idx' = IF ok THEN idx + 1 ELSE Len(toRemove) + 1
       ELSE /\ removals' = removals
            /\ idx' = idx + 1
    /\ UNCHANGED <<pc, output, dryRun, staleDays, repo, worktrees, toRemove,
                   staleWorktrees, evaluated, lookups, response, promptRead,
                   toDelete, retval, text, result>>

\* lines 86-95: one turn of the loop over toRemove
RemoveStep(RO) ==
    /\ pc = "remove"
    /\ idx <= Len(toRemove)
    /\ IF RemovalEnabled(dryRun)
       THEN \E ok \in RO :
               removals' = Append(removals, [path |-> toRemove[idx].Path, ok |-> ok])
       ELSE removals' = removals
    /\ idx' = idx + 1
    /\ UNCHANGED <<pc, output, dryRun, staleDays, repo, worktrees, toRemove,
                   staleWorktrees, evaluated, lookups, response, promptRead,
                   toDelete, retval, text, result>>

\* the loop over toRemove ends (or toRemove is empty)
RemoveDone ==
    /\ pc = "remove"
    /\ idx > Len(toRemove)
    /\ pc' = "stale"
    /\ UNCHANGED <<output, dryRun, staleDays, repo, worktrees, idx, toRemove,
                   staleWorktrees, evaluated, lookups, removals, response,
                   promptRead, toDelete, retval, text, result>>

\* lines 102-131: the stale list, the prompt and the selection; with nothing
\* to ask, lines 143-147
Prompt(INS) ==
    /\ pc = "stale"
    /\ IF Len(staleWorktrees) > 0 /\ RemovalEnabled(dryRun)
       THEN \E in \in INS :
               /\ promptRead' = TRUE
               /\ response' = TrimSpace(ReadString(in))
               /\ toDelete' = IF response' # <<>>
                              THEN SelectStale(response', staleWorktrees)
                              ELSE <<>>
               /\ idx' = 1
               /\ pc' = "delete"
               /\ UNCHANGED retval
       ELSE /\ retval' = "nil"
            /\ pc' = "done"
            /\ UNCHANGED <<promptRead, response, toDelete, idx>>
    /\ UNCHANGED <<output, dryRun, staleDays, repo, worktrees, toRemove,
                   staleWorktrees, evaluated, lookups, removals, text, result>>

\* lines 132-138: one turn of the loop over toDelete
DeleteStep(RO) ==
    /\ pc = "delete"
    /\ idx <= Len(toDelete)
    /\ \E ok \in RO :
          removals' = Append(removals, [path |-> toDelete[idx].Path, ok |-> ok])
    /\ idx' = idx + 1
    /\ UNCHANGED <<pc, output, dryRun, staleDays, repo, worktrees, toRemove,
                   staleWorktrees, evaluated, lookups, response, promptRead,
                   toDelete, retval, text, result>>

\* lines 143-147: return nil
Return ==
    /\ pc = "delete"
    /\ idx > Len(toDelete)
    /\ retval' = "nil"
    /\ pc' = "done"
    /\ UNCHANGED <<output, dryRun, staleDays, repo, worktrees, idx, toRemove,
                   staleWorktrees, evaluated, lookups, removals, response,
                   promptRead, toDelete, text, result>>

(***************************************************************************)
(* Inputs.                                                                 *)
(***************************************************************************)
\* all sequences over S of length at most n
SeqsUpTo(S, n) == UNION {[1..k -> S] : k \in 0..n}

RECURSIVE Concat(_)
Concat(ss) == IF ss = <<>> THEN <<>> ELSE ss[1] \o Concat(Tail(ss))

\* the pieces of ss joined by sep
RECURSIVE Join(_, _)
Join(ss, sep) ==
    IF ss = <<>> THEN <<>>
    ELSE IF Len(ss) = 1 THEN ss[1]
    ELSE ss[1] \o sep \o Join(Tail(ss), sep)

\* the decimal digits of n >= 0 without leading zeros (the empty sequence for 0)
RECURSIVE IntToDigits(_)
IntToDigits(n) ==
    IF n = 0 THEN <<>>
    ELSE Append(IntToDigits(n \div 10),
                CHOOSE c \in Digits : DigitVal(c) = n % 10)

\* twenty nines: a digit string above math.MaxInt64
BigDigits == [i \in 1..20 |-> "9"]

\* pieces of branch and directory names
Segs ==
    { <<"p", "r", "-">>, <<"_", "p", "r", "/">>, <<"p", "u", "l", "l", "_">>,
      <<"-", "p", "u", "l", "l", "-">>, <<"7">>, <<"0">>, <<"1", "2", "3", "4">>,
      <<"1", "2", "3">>, BigDigits, <<"x">>, <<"-">> }

\* the maximal runs of digits of t
DigitRuns(t) ==
    {DigitRun(t, i) : i \in {j \in 1..Len(t) : IsDigit(t[j]) /\ (j = 1 \/ ~IsDigit(t[j - 1]))}}

\* Numbers are drawn below 10^9 or above math.MaxInt64: the numbers between
\* are handled by the code like the small ones, and do not fit the 32-bit
\* integers of TLC.
Texts ==
    {t \in {Concat(ss) : ss \in SeqsUpTo(Segs, MaxSegs)} :
        \A r \in DigitRuns(t) : Len(r) <= 9 \/ Overflows(r, MaxInt64Digits)}

\* lines of a porcelain output
PorcelainLines ==
    { WorktreePrefix \o <<"/", "a">>,
      WorktreePrefix \o <<"/", "w", "/", "p", "r", "-", "7">>,
      BranchPrefix \o <<"x">>,
      BranchPrefix \o <<"9", "-", "y">>,
      <<"H", "E", "A", "D", " ", "1", "a">>,
      <<"d", "e", "t", "a", "c", "h", "e", "d">>,
      <<>> }

RawOutputs == {Join(ls, <<"\n">>) : ls \in SeqsUpTo(PorcelainLines, MaxLines)}

(***************************************************************************)
(* The functions on their own.                                             *)
(***************************************************************************)
Idle ==
    /\ dryRun = FALSE /\ staleDays = 0 /\ repo = FALSE
    /\ worktrees = <<>> /\ idx = 0 /\ toRemove = <<>> /\ staleWorktrees = <<>>
    /\ evaluated = {} /\ lookups = <<>> /\ removals = <<>> /\ response = <<>>
    /\ promptRead = FALSE /\ toDelete = <<>> /\ retval = "none"
    /\ result = 0

ExtractInit ==
    /\ Idle
    /\ pc = "extract"
    /\ output = <<>>
    /\ text \in Texts

\* a call extractPRNumber(text)
Extract ==
    /\ pc = "extract"
    /\ result' = extractPRNumber(text)
    /\ pc' = "extracted"
    /\ UNCHANGED <<output, dryRun, staleDays, repo, worktrees, idx, toRemove,
                   staleWorktrees, evaluated, lookups, removals, response,
                   promptRead, toDelete, retval, text>>

ExtractSpec == ExtractInit /\ [][Extract]_vars

ParseInit ==
    /\ Idle
    /\ pc = "parse"
    /\ text = <<>>
    /\ output \in RawOutputs

\* lines 170-209 of getWorktreeInfo applied to output
Parse ==
    /\ pc = "parse"
    /\ worktrees' = ParsePorcelain(output)
    /\ pc' = "parsed"
    /\ UNCHANGED <<output, dryRun, staleDays, repo, idx, toRemove,
                   staleWorktrees, evaluated, lookups, removals, response,
                   promptRead, toDelete, retval, text, result>>

ParseSpec == ParseInit /\ [][Parse]_vars

(***************************************************************************)
(* Inputs of a run of `clean`.                                             *)
(***************************************************************************)
NewLine == <<"\n">>

HeadLine == <<"H", "E", "A", "D", " ", "1", "a">> \o NewLine

BranchLine(b) == BranchPrefix \o b \o NewLine

\* the primary worktree, as git lists it first: on main; on another branch;
\* on another branch in a directory named .github; or the bare repository of
\* a clone made for worktrees, which git lists by the directory that holds
\* it, with no HEAD and no branch line
Primaries ==
    { WorktreePrefix \o <<"/", "r">> \o NewLine \o HeadLine \o BranchLine(MainBranch),
      WorktreePrefix \o <<"/", "r">> \o NewLine \o HeadLine
          \o BranchLine(<<"d", "e", "v">>),
      WorktreePrefix \o <<"/", "r">> \o GitDir \o <<"h", "u", "b">> \o NewLine
          \o HeadLine \o BranchLine(<<"d", "e", "v">>),
      WorktreePrefix \o <<"/", "r">> \o NewLine
          \o <<"b", "a", "r", "e">> \o NewLine }

\* linked worktrees: a PR branch, a detached checkout in a PR directory, a
\* branch without PR number, and master checked out beside the primary
Secondaries ==
    { WorktreePrefix \o <<"/", "w", "/", "f", "i", "x">> \o NewLine \o HeadLine
          \o BranchLine(<<"p", "r", "-", "1", "2">>),
      WorktreePrefix \o <<"/", "w", "/", "p", "r", "-", "3">> \o NewLine \o HeadLine
          \o <<"d", "e", "t", "a", "c", "h", "e", "d">> \o NewLine,
      WorktreePrefix \o <<"/", "w", "/", "o", "l", "d">> \o NewLine \o HeadLine
          \o BranchLine(<<"o", "l", "d">>),
      WorktreePrefix \o <<"/", "w", "/", "m">> \o NewLine \o HeadLine
          \o BranchLine(MasterBranch) }

\* sequences of distinct linked worktrees
SecondaryLists ==
    {bs \in SeqsUpTo(Secondaries, MaxBlocks) :
        \A i, j \in 1..Len(bs) : i # j => bs[i] # bs[j]}

\* the porcelain output: the blocks, each followed by a blank line
CleanOutputs ==
    {Concat([k \in 1..(Len(bs) + 1) |->
                (IF k = 1 THEN p ELSE bs[k - 1]) \o NewLine]) :
        p \in Primaries, bs \in SecondaryLists}

\* `git log -1 --format=%at` printing the Unix time t
LogAt(t) == [err |-> FALSE, stdout |-> IntToDigits(t) \o NewLine]

SecondsPerDay == HoursPerDay * SecondsPerHour

\* the command fails; it prints nothing; the last commit is 31 days old,
\* 30 days old, or dated 12 hours in the future
AllLogOutcomes ==
    { [err |-> TRUE, stdout |-> <<>>],
      [err |-> FALSE, stdout |-> <<>>],
      LogAt(NowUnix - 31 * SecondsPerDay),
      LogAt(NowUnix - 30 * SecondsPerDay),
      LogAt(NowUnix + 12 * SecondsPerHour) }

FewLogOutcomes == { LogAt(NowUnix - 31 * SecondsPerDay) }

\* the REST call fails, or the pull request is open, closed or merged
AllAPIOutcomes ==
    { [err |-> TRUE, State |-> "", Merged |-> FALSE],
      [err |-> FALSE, State |-> "open", Merged |-> FALSE],
      [err |-> FALSE, State |-> "closed", Merged |-> FALSE],
      [err |-> FALSE, State |-> "closed", Merged |-> TRUE] }

FewAPIOutcomes ==
    { [err |-> TRUE, State |-> "", Merged |-> FALSE],
      [err |-> FALSE, State |-> "closed", Merged |-> TRUE] }

\* --stale-days: the default, a negative value, and the largest value below
\* the age of the zero time
DefaultStaleDays == 30

StaleDaysValues ==
    {DefaultStaleDays, 0 - 1, TruncDiv(MaxDurationHours, HoursPerDay) - 1}

\* what the user may type as one token
PromptTokens ==
    { AllWord, <<"1">>, <<"2">>, <<"9", "9">>, <<"x">> }

\* what the user may type between two tokens: a space or a form feed
PromptSeparators == { <<" ">>, <<"\f">> }

\* lines of standard input: tokens with a separator between them, ended by a
\* newline
AllInputs ==
    {Join(ts, sep) \o NewLine :
        ts \in SeqsUpTo(PromptTokens, MaxTokens), sep \in PromptSeparators}

FewInputs == {AllWord \o NewLine}

RunInit ==
    /\ pc = "start"
    /\ output \in CleanOutputs
    /\ repo = FALSE /\ worktrees = <<>> /\ idx = 0
    /\ toRemove = <<>> /\ staleWorktrees = <<>> /\ evaluated = {}
    /\ lookups = <<>> /\ removals = <<>> /\ response = <<>>
    /\ promptRead = FALSE /\ toDelete = <<>> /\ retval = "none"
    /\ text = <<>> /\ result = 0

Run(LO, AO, RO, INS) ==
    \/ ListFails
    \/ ListWorktrees
    \/ LastCommitStep(LO)
    \/ Analyze
    \/ ClassifyStep(AO)
    \/ ClassifyDone
    \/ RemoveStep(RO)
    \/ RemoveDone
    \/ Prompt(INS)
    \/ DeleteStep(RO)
    \/ Return

(***************************************************************************)
(* Spec: every flag value, every outcome of the lookups, removals that     *)
(* succeed, a user who answers "all".                                      *)
(***************************************************************************)
Init ==
    /\ RunInit
    /\ dryRun \in BOOLEAN
    /\ staleDays \in StaleDaysValues

Next == Run(AllLogOutcomes, AllAPIOutcomes, {TRUE}, FewInputs)

Spec == Init /\ [][Next]_vars

(***************************************************************************)
(* PromptSpec: a run without --dry-run and with the default threshold,     *)
(* last commits 31 days old, pull requests merged or not resolved,         *)
(* removals that may fail, and every line the user may type.               *)
(***************************************************************************)
PromptInit ==
    /\ RunInit
    /\ dryRun = FALSE
    /\ staleDays = DefaultStaleDays

PromptNext == Run(FewLogOutcomes, FewAPIOutcomes, BOOLEAN, AllInputs)

PromptSpec == PromptInit /\ [][PromptNext]_vars

(***************************************************************************)
(* Properties.                                                             *)
(***************************************************************************)
PathsOf(list) == {list[k].Path : k \in 1..Len(list)}

RemovedPaths == {removals[k].path : k \in 1..Len(removals)}

\* whole days since the last commit of wt, computed from the seconds: truncated
\* toward zero, and floored
TruncDays(wt) ==
    IF wt.LastCommit.zero THEN TruncDiv(MaxDurationHours, HoursPerDay)
    ELSE TruncDiv(NowUnix - wt.LastCommit.unix, SecondsPerDay)

FloorDays(wt) ==
    IF wt.LastCommit.zero THEN MaxDurationHours \div HoursPerDay
    ELSE (NowUnix - wt.LastCommit.unix) \div SecondsPerDay

\* the policy loop is over
Classified == pc \in {"remove", "stale", "delete", "done"} /\ worktrees # <<>>

\* C1: with --dry-run, removeWorktree is never called, on the removal path or
\* on the stale path, and standard input is never read.
C1_DryRunNeverRemoves == dryRun => (removals = <<>> /\ ~promptRead)

\* a finished dry run that listed both a worktree to remove and a stale one
C1_Witness ==
    /\ dryRun /\ pc = "done"
    /\ toRemove # <<>> /\ staleWorktrees # <<>>
    /\ removals = <<>>

\* C2: the primary worktree, the first one git lists, is never evaluated by
\* the policy loop: no PR status is resolved for it, it is listed neither to
\* remove nor as stale, and removeWorktree is never called on its path.
C2_PrimaryExcluded ==
    worktrees # <<>> =>
        /\ 1 \notin evaluated
        /\ \A k \in 1..Len(lookups) : lookups[k].i # 1
        /\ worktrees[1].Path \notin PathsOf(toRemove) \cup PathsOf(staleWorktrees)
        /\ worktrees[1].Path \notin RemovedPaths

\* the patterns that match t
Matching(t) == {k \in 1..NumPatterns : Pattern(k, t).ok}

Least(S) == CHOOSE k \in S : \A j \in S : k <= j

\* C3 as stated: the result is the number captured by the first pattern that
\* matches, and it is 0 exactly when no pattern matches.
C3_FirstMatchWins ==
    pc = "extracted" =>
        /\ Matching(text) # {} =>
              IntToDigits(result) = StripZeros(Pattern(Least(Matching(text)), text).cap)
        /\ (result = 0) <=> (Matching(text) = {})

\* the patterns that match t with a capture strconv.Atoi accepts
Usable(t) == {k \in Matching(t) : ~Overflows(Pattern(k, t).cap, MaxInt64Digits)}

\* the digits t ends with
RECURSIVE TrailingDigits(_)
TrailingDigits(t) ==
    IF t # <<>> /\ IsDigit(t[Len(t)])
    THEN Append(TrailingDigits(SubSeq(t, 1, Len(t) - 1)), t[Len(t)])
    ELSE <<>>

\* C3 amended: the result is the number captured by the first pattern that
\* matches with a capture that fits Go's int (a pattern whose capture does not
\* fit is passed over and the next one tried); the result is 0 when there is
\* no such pattern; and the last pattern needs four digits at least.
C3_FirstUsableWins ==
    pc = "extracted" =>
        /\ IF Usable(text) # {}
           THEN IntToDigits(result) = StripZeros(Pattern(Least(Usable(text)), text).cap)
           ELSE result = 0
        /\ (Matching(text) \subseteq {NumPatterns} /\ Len(TrailingDigits(text)) < MinTrailingDigits)
              => result = 0

\* two patterns match with different captures, and the earlier one is returned
C3_Witness ==
    /\ pc = "extracted"
    /\ result > 0
    /\ \E j, k \in Matching(text) :
          /\ j < k
          /\ j = Least(Matching(text))
          /\ IntToDigits(result) = StripZeros(Pattern(j, text).cap)
          /\ Pattern(k, text).cap # Pattern(j, text).cap
          /\ ~Overflows(Pattern(k, text).cap, MaxInt64Digits)

\* C4: a record whose PR status resolved to merged or closed is listed to
\* remove and not as stale, whatever its age and the threshold, and no record
\* is on both lists.
C4_MergedClosedRemoved ==
    /\ \A k \in 1..Len(lookups) :
          (lookups[k].ok /\ lookups[k].status \in {"merged", "closed"}) =>
              /\ worktrees[lookups[k].i].Path \in PathsOf(toRemove)
              /\ worktrees[lookups[k].i].Path \notin PathsOf(staleWorktrees)
    /\ PathsOf(toRemove) \cap PathsOf(staleWorktrees) = {}

\* a closed and a merged PR, both older than the threshold, beside a stale record
C4_Witness ==
    /\ Classified
    /\ \E j, k \in 1..Len(toRemove) :
          /\ toRemove[j].PRStatus = "merged" /\ toRemove[k].PRStatus = "closed"
          /\ daysSinceCommit(toRemove[j]) > staleDays
          /\ daysSinceCommit(toRemove[k]) > staleDays
    /\ staleWorktrees # <<>>

\* C5 as stated: a record the policy loop evaluated and did not list to remove
\* is listed as stale iff the FLOOR of its age in days exceeds the threshold.
C5_StaleIffFloorDays ==
    \A i \in evaluated :
        worktrees[i].Path \notin PathsOf(toRemove) =>
            (worktrees[i].Path \in PathsOf(staleWorktrees)
                <=> FloorDays(worktrees[i]) > staleDays)

\* C5 amended: a record the policy loop evaluated and did not list to remove
\* is listed as stale iff its age in days, TRUNCATED TOWARD ZERO, exceeds the
\* threshold (the floor for a last commit that is not in the future).
C5_StaleIffTruncDays ==
    \A i \in evaluated :
        worktrees[i].Path \notin PathsOf(toRemove) =>
            (worktrees[i].Path \in PathsOf(staleWorktrees)
                <=> TruncDays(worktrees[i]) > staleDays)

\* the default threshold; a record 31 days old is stale, one 30 days old is not
C5_Witness ==
    /\ Classified
    /\ staleDays = DefaultStaleDays
    /\ \E i, j \in evaluated :
          /\ worktrees[i].LastCommit = [zero |-> FALSE, unix |-> NowUnix - 31 * SecondsPerDay]
          /\ worktrees[i].Path \in PathsOf(staleWorktrees)
          /\ worktrees[j].LastCommit = [zero |-> FALSE, unix |-> NowUnix - 30 * SecondsPerDay]
          /\ worktrees[j].Path \notin PathsOf(staleWorktrees) \cup PathsOf(toRemove)

\* the indices in 1..n that some token of resp denotes
Denoted(resp, n) ==
    LET tokens == Fields(resp)
        numbers == {Atoi(tokens[k]).val : k \in {j \in 1..Len(tokens) : Atoi(tokens[j]).ok}}
    IN  (1..n) \cap numbers

\* C6: after the prompt, "all" selects every stale record; otherwise exactly
\* the records whose 1-based index some token denotes are selected, the other
\* tokens being ignored; an empty line selects nothing; and removeWorktree is
\* called on the selected records and on no other.
C6_PromptSelection ==
    (promptRead /\ pc \in {"delete", "done"}) =>
        LET n == Len(staleWorktrees)
            chosen == IF response = AllWord THEN 1..n ELSE Denoted(response, n)
            called == {removals[k].path : k \in (Len(toRemove) + 1)..Len(removals)}
        IN  /\ PathsOf(toDelete) = {staleWorktrees[i].Path : i \in chosen}
            /\ response = <<>> => toDelete = <<>>
            /\ called \subseteq PathsOf(toDelete)
            /\ pc = "done" => called = PathsOf(toDelete)

\* the answer "2" and "99", in either order with a form feed between them, to
\* a list of two or more: only the second goes
C6_Witness ==
    /\ pc = "done" /\ promptRead
    /\ Len(staleWorktrees) >= 2
    /\ \E k \in 1..Len(response) : response[k] = "\f"
    /\ \E k \in 1..Len(Fields(response)) : Fields(response)[k] = <<"9", "9">>
    /\ \E k \in 1..Len(Fields(response)) : Fields(response)[k] = <<"2">>
    /\ {removals[k].path : k \in (Len(toRemove) + 1)..Len(removals)}
           = {staleWorktrees[2].Path}

\* the `worktree` lines of ls
BlockStarts(ls) == {k \in 1..Len(ls) : HasPrefix(ls[k], WorktreePrefix)}

\* the lines of the block that starts at line k, after its first
BlockBody(ls, k) ==
    {j \in (k + 1)..Len(ls) :
        \A m \in (k + 1)..j : ls[m] # <<>> /\ ~HasPrefix(ls[m], WorktreePrefix)}

\* the branch lines of that block
BranchLines(ls, k) == {j \in BlockBody(ls, k) : HasPrefix(ls[j], BranchPrefix)}

\* the n-th `worktree` line
NthStart(ls, n) ==
    CHOOSE k \in BlockStarts(ls) : Cardinality({j \in BlockStarts(ls) : j <= k}) = n

\* C7: for an output whose blocks hold one branch line at most, the parser
\* yields one record per `worktree` line, in order, with the line's path and
\* the name of the branch line of its block (empty without one).
C7_OneRecordPerBlock ==
    LET ls == Split(output, "\n") IN
    (pc = "parsed" /\ \A k \in BlockStarts(ls) : Cardinality(BranchLines(ls, k)) <= 1) =>
        /\ Len(worktrees) = Cardinality(BlockStarts(ls))
        /\ \A n \in 1..Len(worktrees) :
              LET k == NthStart(ls, n) IN
              /\ worktrees[n].Path = SubSeq(ls[k], Len(WorktreePrefix) + 1, Len(ls[k]))
              /\ worktrees[n].Branch =
                    IF BranchLines(ls, k) = {} THEN <<>>
                    ELSE LET b == ls[CHOOSE j \in BranchLines(ls, k) : TRUE]
                         IN  SubSeq(b, Len(BranchPrefix) + 1, Len(b))

\* two blocks: the first with a branch, the second without and ended by the
\* end of the output
C7_Witness ==
    /\ pc = "parsed"
    /\ Len(worktrees) = 2
    /\ worktrees[1].Branch # <<>> /\ worktrees[2].Branch = <<>>
    /\ worktrees[1].Path # worktrees[2].Path
    /\ output[Len(output)] # "\n"

\* C8: without --dry-run, once the removal loop is over removeWorktree has been
\* called on every record listed to remove, in order, whichever calls failed;
\* the stale step follows, and RunE returns nil.
C8_EveryRemovalAttempted ==
    /\ (pc = "remove" /\ ~dryRun) =>
          /\ Len(removals) = idx - 1
          /\ \A k \in 1..Len(removals) : removals[k].path = toRemove[k].Path
    /\ (pc \in {"stale", "delete", "done"} /\ ~dryRun /\ worktrees # <<>>) =>
          /\ Len(removals) >= Len(toRemove)
          /\ \A k \in 1..Len(toRemove) : removals[k].path = toRemove[k].Path
    /\ (pc = "done" /\ worktrees # <<>>) =>
          /\ retval = "nil"
          /\ (staleWorktrees # <<>> /\ ~dryRun) => promptRead

\* the first of two removals failed, the second succeeded, the prompt followed
C8_Witness ==
    /\ pc = "done" /\ ~dryRun
    /\ Len(toRemove) >= 2
    /\ ~removals[1].ok /\ removals[2].ok
    /\ promptRead
    /\ retval = "nil"

\* C9: a record whose PR lookup failed is not listed to remove and is stale or
\* not by its age alone; every record after it is still evaluated; and when
\* the repository is unknown no lookup is made and nothing is listed to remove.
C9_LookupFailureNotFatal ==
    /\ \A k \in 1..Len(lookups) :
          ~lookups[k].ok =>
              /\ worktrees[lookups[k].i].Path \notin PathsOf(toRemove)
              /\ worktrees[lookups[k].i].Path \in PathsOf(staleWorktrees)
                    <=> TruncDays(worktrees[lookups[k].i]) > staleDays
    /\ Classified => \A i \in 1..Len(worktrees) : ~isMain(worktrees[i]) => i \in evaluated
    /\ ~repo => (lookups = <<>> /\ toRemove = <<>>)

\* a failed lookup of a record that ends up stale, another that ends up
\* active, and a record evaluated after a failed lookup
C9_Witness ==
    /\ Classified
    /\ \E j, k \in 1..Len(lookups) :
          /\ ~lookups[j].ok /\ ~lookups[k].ok
          /\ worktrees[lookups[j].i].Path \in PathsOf(staleWorktrees)
          /\ worktrees[lookups[k].i].Path \notin PathsOf(staleWorktrees)
          /\ \E i \in evaluated : i > lookups[j].i

\* C10: a record the policy loop evaluated whose last-commit time is unset and
\* which is not listed to remove is listed as stale, for every threshold below
\* the saturated age of the zero time.
C10_UnsetCommitIsStale ==
    \A i \in evaluated :
        ( /\ worktrees[i].LastCommit.zero
          /\ worktrees[i].Path \notin PathsOf(toRemove)
          /\ staleDays < TruncDiv(MaxDurationHours, HoursPerDay) )
        => worktrees[i].Path \in PathsOf(staleWorktrees)

\* the largest such threshold; a detached worktree and one whose `git log`
\* failed, both stale
C10_Witness ==
    /\ Classified
    /\ staleDays = TruncDiv(MaxDurationHours, HoursPerDay) - 1
    /\ \E i, j \in evaluated :
          /\ worktrees[i].LastCommit.zero /\ worktrees[i].Branch = <<>>
          /\ worktrees[j].LastCommit.zero /\ worktrees[j].Branch # <<>>
          /\ worktrees[i].Path \in PathsOf(staleWorktrees)
          /\ worktrees[j].Path \in PathsOf(staleWorktrees)

====
